---- MODULE Spec2Model ----
(***************************************************************************)
(* Model of the matrix-rain program (src/src/main.rs): the droplet array,  *)
(* draw_next_frame processed one column at a time, the render loop of      *)
(* main, and the key-watching thread that clears the `running` flag.       *)
(*                                                                         *)
(* f32 frame/speed values are represented on a grid of SpeedGrid ticks per *)
(* 1.0 (frame = 1.0 is the integer One).  u16 additions are taken modulo   *)
(* 2^16.  The f64 arithmetic of color_gradient is reproduced bit by bit    *)
(* (53-bit significands, round to nearest even).                           *)
(***************************************************************************)
EXTENDS Integers, Sequences, FiniteSets, TLC

(* ------------------------------ bounds --------------------------------- *)
MaxCols == 2
MaxRows == 8
\* bound on cols * cols * rows: wide terminals are explored at small heights
MaxLoad == 16
LenSpread == 1
SpeedGrid == 2

(* ------------------------- program constants --------------------------- *)
DROPLET_MIN_LENGTH == 2
DROPLET_MAX_LENGTH == 20
\* DROPLET_MIN_SPEED = 0.2 = 1 / MinSpeedRecip
MinSpeedRecip == 5
One == SpeedGrid
DROPLET_MAX_SPEED == One
U16Mod == 65536
BASE_COLOR == <<170, 255, 170>>

Min(a, b) == IF a <= b THEN a ELSE b

\* u16 addition as the release build performs it
U16Add(a, b) == (a + b) % U16Mod

\* values rng.gen_range(DROPLET_MIN_LENGTH..=DROPLET_MAX_LENGTH) is sampled at
Lengths == {l \in DROPLET_MIN_LENGTH..DROPLET_MAX_LENGTH : l <= DROPLET_MIN_LENGTH + LenSpread}

\* speeds drawn from a range reaching up to 2.0
Speeds_AboveOne == {s \in 1..(2 * DROPLET_MAX_SPEED) : s * MinSpeedRecip >= One}

\* values rng.gen_range(DROPLET_MIN_SPEED..=DROPLET_MAX_SPEED) is sampled at
Speeds == {s \in 1..DROPLET_MAX_SPEED : s * MinSpeedRecip >= One}

(* ---------------- f64 arithmetic of color_gradient --------------------- *)
\* A non-negative f64 value is [bits, shift]: the integer written by the bit
\* sequence `bits` (most significant first) times 2^(-shift).
SigBits == 53

RECURSIVE ToBits(_)
ToBits(n) == IF n = 0 THEN <<>> ELSE ToBits(n \div 2) \o <<n % 2>>

RECURSIVE ToInt(_)
ToInt(bits) ==
    IF bits = <<>> THEN 0
    ELSE 2 * ToInt(SubSeq(bits, 1, Len(bits) - 1)) + bits[Len(bits)]

RECURSIVE Inc(_)
Inc(bits) ==
    IF bits = <<>> THEN <<1>>
    ELSE IF bits[Len(bits)] = 0 THEN SubSeq(bits, 1, Len(bits) - 1) \o <<1>>
    ELSE Inc(SubSeq(bits, 1, Len(bits) - 1)) \o <<0>>

\* binary long division of r / l (0 < r < l): the first SigBits significant
\* quotient bits, the number of leading zero bits and the final remainder
RECURSIVE DivBits(_, _, _, _)
DivBits(r, l, acc, lead) ==
    IF Len(acc) = SigBits THEN [bits |-> acc, lead |-> lead, rem |-> r]
    ELSE LET bit == IF 2 * r >= l THEN 1 ELSE 0
             r2 == 2 * r - bit * l
         IN IF acc = <<>> /\ bit = 0
            THEN DivBits(r2, l, acc, lead + 1)
            ELSE DivBits(r2, l, Append(acc, bit), lead)

\* n as f64 / l as f64 for integers 0 <= n <= l, rounded to nearest even
F64Div(n, l) ==
    IF n = 0 THEN [bits |-> <<>>, shift |-> 0]
    ELSE IF n = l THEN [bits |-> <<1>>, shift |-> 0]
    ELSE LET q == DivBits(n, l, <<>>, 0)
             up == \/ 2 * q.rem > l
                   \/ 2 * q.rem = l /\ q.bits[SigBits] = 1
         IN [bits |-> IF up THEN Inc(q.bits) ELSE q.bits,
             shift |-> q.lead + SigBits]

\* the bit sequence of b * bits + carry
RECURSIVE MulBits(_, _, _)
MulBits(bits, b, carry) ==
    IF bits = <<>> THEN ToBits(carry)
    ELSE LET t == b * bits[Len(bits)] + carry
             front == SubSeq(bits, 1, Len(bits) - 1)
         IN IF t % 2 = 0
            THEN MulBits(front, b, t \div 2) \o <<0>>
            ELSE MulBits(front, b, t \div 2) \o <<1>>

\* round a value to SigBits significant bits, to nearest even
F64Round(x) ==
    IF Len(x.bits) <= SigBits THEN x
    ELSE LET k == Len(x.bits) - SigBits
             kept == SubSeq(x.bits, 1, SigBits)
             guard == x.bits[SigBits + 1]
             sticky == \E i \in (SigBits + 2)..Len(x.bits) : x.bits[i] = 1
             up == guard = 1 /\ (sticky \/ kept[SigBits] = 1)
         IN [bits |-> IF up THEN Inc(kept) ELSE kept, shift |-> x.shift - k]

\* (b as f64) * x for an integer b
F64Mul(b, x) == F64Round([bits |-> MulBits(x.bits, b, 0), shift |-> x.shift])

\* `as u8`: truncation toward zero, saturating at 255
AsU8(x) ==
    LET n == Len(x.bits) - x.shift
    IN Min(255, IF n <= 0 THEN 0 ELSE ToInt(SubSeq(x.bits, 1, n)))

\* color_gradient with the scale taken from the distance instead of the rest
color_gradient_Inverted(droplet, distance) ==
    LET scale == F64Div(distance, droplet.len)
    IN <<AsU8(F64Mul(BASE_COLOR[1], scale)),
         AsU8(F64Mul(BASE_COLOR[2], scale)),
         AsU8(F64Mul(BASE_COLOR[3], scale))>>

\* lines 56-63
color_gradient(droplet, distance) ==
    LET scale == F64Div(droplet.len - distance, droplet.len)
    IN <<AsU8(F64Mul(BASE_COLOR[1], scale)),
         AsU8(F64Mul(BASE_COLOR[2], scale)),
         AsU8(F64Mul(BASE_COLOR[3], scale))>>

\* color_gradient for every trail length and distance the program can pass
GradientTable ==
    [l \in 1..DROPLET_MAX_LENGTH |->
        [d \in 0..l |-> color_gradient([len |-> l], d)]]

VARIABLES cols, rows, droplets, running, pc, col, ipc, screen, term, last, grad

vars == <<cols, rows, droplets, running, pc, col, ipc, screen, term, last, grad>>

Droplet(r, l, m, f, s) == [row |-> r, len |-> l, max_len |-> m, frame |-> f, speed |-> s]

\* the droplets main builds at startup for a terminal of height rws
InitialDroplets(rws) ==
    {Droplet(r, l, l, One, s) : r \in 0..(rws - 1), l \in Lengths, s \in Speeds}

\* replacement that starts the new droplet at frame 0.0 instead of 1.0
SpawnedDroplets_FrameZero(rws) ==
    {Droplet(r, 1, m, 0, s) : r \in 0..((rws \div 4) - 1), m \in Lengths, s \in Speeds}

\* replacement with the inclusive range 0..=rows / 4 at line 77
SpawnedDroplets_Inclusive(rws) ==
    {Droplet(r, 1, m, One, s) : r \in 0..(rws \div 4), m \in Lengths, s \in Speeds}

\* the droplets the replacement branch of draw_next_frame can build
SpawnedDroplets(rws) ==
    {Droplet(r, 1, m, One, s) : r \in 0..((rws \div 4) - 1), m \in Lengths, s \in Speeds}


PaintOp(c, r, color) == [op |-> "paint", col |-> c, row |-> r, color |-> color]

EraseOp(c, r) == [op |-> "erase", col |-> c, row |-> r]

\* the trail loop without the bottom-edge test of line 86
PaintDistances_NoClip(droplet, rws) ==
    SelectSeq([i \in 1..(droplet.len + 1) |-> i - 1],
              LAMBDA d : droplet.row >= d)

\* distances of the trail loop whose cell is on screen, in loop order
PaintDistances(droplet, rws) ==
    SelectSeq([i \in 1..(droplet.len + 1) |-> i - 1],
              LAMBDA d : droplet.row >= d /\ droplet.row - d < rws)

\* Writes without the erase of lines 95-103
Writes_NoErase(c, droplet, rws) ==
    LET ds == PaintDistances(droplet, rws)
    IN [i \in 1..Len(ds) |->
          PaintOp(c, droplet.row - ds[i], GradientTable[droplet.len][ds[i]])]

\* Writes with the erase issued without the guard of line 95
Writes_EraseAlways(c, droplet, rws) ==
    LET ds == PaintDistances(droplet, rws)
        paints == [i \in 1..Len(ds) |->
                     PaintOp(c, droplet.row - ds[i], GradientTable[droplet.len][ds[i]])]
    IN paints \o <<EraseOp(c, droplet.row - droplet.len)>>

\* Writes with the erase guarded by row > len instead of row > len - 1
Writes_EraseLate(c, droplet, rws) ==
    LET ds == PaintDistances(droplet, rws)
        paints == [i \in 1..Len(ds) |->
                     PaintOp(c, droplet.row - ds[i], GradientTable[droplet.len][ds[i]])]
        erase == IF droplet.row > droplet.len
                 THEN <<EraseOp(c, droplet.row - droplet.len)>>
                 ELSE <<>>
    IN paints \o erase

\* the terminal writes draw_next_frame issues for one painted column, in order
Writes(c, droplet, rws) ==
    LET ds == PaintDistances(droplet, rws)
        paints == [i \in 1..Len(ds) |->
                     PaintOp(c, droplet.row - ds[i], GradientTable[droplet.len][ds[i]])]
        erase == IF droplet.row > droplet.len - 1
                 THEN <<EraseOp(c, droplet.row - droplet.len)>>
                 ELSE <<>>
    IN paints \o erase

\* the set of non-blank cells after one write
ApplyWrite(scr, w) ==
    IF w.op = "paint" THEN scr \cup {<<w.col, w.row>>} ELSE scr \ {<<w.col, w.row>>}

RECURSIVE ApplyWrites(_, _)
ApplyWrites(scr, ws) ==
    IF ws = <<>> THEN scr ELSE ApplyWrites(ApplyWrite(scr, Head(ws)), Tail(ws))

\* Advance without the cmp::min clamp of line 107
Advance_NoClamp(droplet) ==
    [droplet EXCEPT !.frame = droplet.frame - One,
                    !.row = U16Add(droplet.row, 1),
                    !.len = U16Add(droplet.len, 1)]

\* Advance without the frame decrement of line 105
Advance_NoFrameDec(droplet) ==
    [droplet EXCEPT !.row = U16Add(droplet.row, 1),
                    !.len = Min(U16Add(droplet.len, 1), droplet.max_len)]

\* Advance that moves the head two rows at line 106
Advance_TwoRows(droplet) ==
    [droplet EXCEPT !.frame = droplet.frame - One,
                    !.row = U16Add(droplet.row, 2),
                    !.len = Min(U16Add(droplet.len, 1), droplet.max_len)]

\* Advance that also extends max_len
Advance_ExtendsMax(droplet) ==
    [droplet EXCEPT !.frame = droplet.frame - One,
                    !.row = U16Add(droplet.row, 1),
                    !.len = Min(U16Add(droplet.len, 1), droplet.max_len),
                    !.max_len = U16Add(droplet.max_len, 1)]

\* lines 104-107: move to next frame and extend the droplet
Advance(droplet) ==
    [droplet EXCEPT !.frame = droplet.frame - One,
                    !.row = U16Add(droplet.row, 1),
                    !.len = Min(U16Add(droplet.len, 1), droplet.max_len)]

\* line 74: the droplet has left the screen
IsExhausted(droplet, rws) == droplet.row >= U16Add(rws, droplet.len)

NoDroplet == Droplet(0, 0, 0, 0, 0)

NoGrad == [len |-> 0, distance |-> 0, color |-> <<>>]

Last(kind, c, pre, ws) == [kind |-> kind, col |-> c, pre |-> pre, writes |-> ws]

TermRaw == [raw |-> TRUE, alt |-> TRUE, hidden |-> TRUE]

TermRestored == [raw |-> FALSE, alt |-> FALSE, hidden |-> FALSE]

Init ==
    /\ cols \in 1..MaxCols
    /\ rows \in 1..MaxRows
    /\ cols * cols * rows <= MaxLoad
    /\ droplets \in [0..(cols - 1) -> InitialDroplets(rows)]
    /\ running = TRUE
    /\ pc = "loop"
    /\ col = 0
    /\ ipc = "read"
    /\ screen = {}
    /\ term = TermRaw
    /\ last = Last("none", 0, NoDroplet, <<>>)
    /\ grad = NoGrad

\* line 153: the render loop reads the flag; a frame starts iff it is set
PollRunning ==
    /\ pc = "loop"
    /\ pc' = IF running THEN "frame" ELSE "restore"
    /\ col' = 0
    /\ UNCHANGED <<grad, cols, rows, droplets, running, ipc, screen, term, last>>

\* lines 70-73 without the `continue`: the column is painted and advanced
RestColumn_NoContinue ==
    /\ pc = "frame" /\ col < cols
    /\ LET d == droplets[col]
           f == d.frame + d.speed
           ws == Writes(col, d, rows)
       IN /\ f < One
          /\ screen' = ApplyWrites(screen, ws)
          /\ droplets' = [droplets EXCEPT ![col] = Advance([d EXCEPT !.frame = f])]
          /\ last' = Last("rest", col, d, ws)
    /\ col' = col + 1
    /\ UNCHANGED <<grad, cols, rows, running, pc, ipc, term>>

\* lines 70-73: frame += speed stays below 1.0, nothing is drawn
RestColumn ==
    /\ pc = "frame" /\ col < cols
    /\ LET d == droplets[col]
           f == d.frame + d.speed
       IN /\ f < One
          /\ droplets' = [droplets EXCEPT ![col].frame = f]
          /\ last' = Last("rest", col, d, <<>>)
    /\ col' = col + 1
    /\ UNCHANGED <<grad, cols, rows, running, pc, ipc, screen, term>>

\* lines 74-84: an exhausted droplet is replaced by a new one
ReplaceColumn ==
    /\ pc = "frame" /\ col < cols
    /\ LET d == droplets[col]
           f == d.frame + d.speed
       IN /\ f >= One
          /\ IsExhausted(d, rows)
          /\ \E n \in SpawnedDroplets(rows) :
                /\ droplets' = [droplets EXCEPT ![col] = n]
                /\ last' = Last("replace", col, d, <<>>)
    /\ col' = col + 1
    /\ UNCHANGED <<grad, cols, rows, running, pc, ipc, screen, term>>

\* line 77: gen_range(0..rows / 4) panics on the empty range
ReplacePanic ==
    /\ pc = "frame" /\ col < cols
    /\ LET d == droplets[col]
           f == d.frame + d.speed
       IN /\ f >= One
          /\ IsExhausted(d, rows)
          /\ rows \div 4 = 0
          /\ droplets' = [droplets EXCEPT ![col].frame = f]
          /\ last' = Last("panic", col, d, <<>>)
    /\ pc' = "panicked"
    /\ UNCHANGED <<grad, cols, rows, running, col, ipc, screen, term>>

\* lines 85-107: the trail is written, then the droplet advances
PaintColumn ==
    /\ pc = "frame" /\ col < cols
    /\ LET d == droplets[col]
           f == d.frame + d.speed
           ws == Writes(col, d, rows)
       IN /\ f >= One
          /\ ~IsExhausted(d, rows)
          /\ screen' = ApplyWrites(screen, ws)
          /\ droplets' = [droplets EXCEPT ![col] = Advance([d EXCEPT !.frame = f])]
          /\ last' = Last("step", col, d, ws)
    /\ col' = col + 1
    /\ UNCHANGED <<grad, cols, rows, running, pc, ipc, term>>

\* lines 87-103 with `?`: the k-th write fails and draw_next_frame returns Err,
\* which main propagates at line 154 without reaching lines 158-159
PaintFail ==
    /\ pc = "frame" /\ col < cols
    /\ LET d == droplets[col]
           f == d.frame + d.speed
           ws == Writes(col, d, rows)
       IN /\ f >= One
          /\ ~IsExhausted(d, rows)
          /\ \E k \in 1..Len(ws) :
                /\ screen' = ApplyWrites(screen, SubSeq(ws, 1, k - 1))
                /\ last' = Last("fail", col, d, SubSeq(ws, 1, k - 1))
          /\ droplets' = [droplets EXCEPT ![col].frame = f]
    /\ pc' = "failed"
    /\ UNCHANGED <<grad, cols, rows, running, col, ipc, term>>

\* lines 109, 155: the frame is complete, sleep and go back to the loop test
FrameDone ==
    /\ pc = "frame" /\ col = cols
    /\ pc' = "loop"
    /\ UNCHANGED <<grad, cols, rows, droplets, running, col, ipc, screen, term, last>>

\* lines 158-159: leave the alternate screen, reset color, show the cursor,
\* disable raw mode
Restore ==
    /\ pc = "restore"
    /\ pc' = "done"
    /\ term' = TermRestored
    /\ UNCHANGED <<grad, cols, rows, droplets, running, col, ipc, screen, last>>

\* line 158 fails: main returns Err before disable_raw_mode
RestoreFail ==
    /\ pc = "restore"
    /\ pc' = "failed"
    /\ UNCHANGED <<grad, cols, rows, droplets, running, col, ipc, screen, term, last>>

Exited == pc \in {"done", "failed", "panicked"}

InputEvents == {"q", "key", "other", "err"}

\* the watcher thread treating every key press as the quit key
OnEvent_AnyKey(ev) ==
    /\ ~Exited
    /\ ipc = "read"
    /\ running' = IF ev \in {"q", "key"} THEN FALSE ELSE running
    /\ ipc' = IF running' THEN "read" ELSE "exit"
    /\ UNCHANGED <<grad, cols, rows, droplets, pc, col, screen, term, last>>

\* lines 144-149 for one result of read(): only Char('q') clears the flag,
\* and the thread then re-tests the flag it alone writes (line 144)
OnEvent(ev) ==
    /\ ~Exited
    /\ ipc = "read"
    /\ running' = IF ev = "q" THEN FALSE ELSE running
    /\ ipc' = IF running' THEN "read" ELSE "exit"
    /\ UNCHANGED <<grad, cols, rows, droplets, pc, col, screen, term, last>>

\* lines 143-151: read() returns a key, another event or an error
InputRead == \E ev \in InputEvents : OnEvent(ev)

draw_next_frame == RestColumn \/ ReplaceColumn \/ ReplacePanic \/ PaintColumn \/ PaintFail

Next ==
    \/ PollRunning
    \/ draw_next_frame
    \/ FrameDone
    \/ Restore
    \/ RestoreFail
    \/ InputRead

Spec == Init /\ [][Next]_vars

\* the steps of the render thread (main, lines 153-159)
MainNext == PollRunning \/ draw_next_frame \/ FrameDone \/ Restore \/ RestoreFail

\* the render thread is never blocked: the loop only sleeps 50 ms per frame
FairSpec == Spec /\ WF_vars(MainNext)

(* ------------- color_gradient applied to every possible input ----------- *)
\* a droplet of trail length l and a distance d of the trail loop (line 85)
GradInit ==
    /\ cols = 1
    /\ rows = 1
    /\ droplets = [c \in {0} |-> NoDroplet]
    /\ running = TRUE
    /\ pc = "gradient"
    /\ col = 0
    /\ ipc = "read"
    /\ screen = {}
    /\ term = TermRaw
    /\ last = Last("none", 0, NoDroplet, <<>>)
    /\ \E l \in 1..DROPLET_MAX_LENGTH : \E d \in 0..l :
          grad = [len |-> l, distance |-> d, color |-> <<>>]

\* line 90: SetForegroundColor(color_gradient(droplet, distance))
GradApply ==
    /\ pc = "gradient"
    /\ grad.color = <<>>
    /\ grad' = [grad EXCEPT !.color = color_gradient([len |-> grad.len], grad.distance)]
    /\ UNCHANGED <<cols, rows, droplets, running, pc, col, ipc, screen, term, last>>

GradNext == GradApply

GradSpec == GradInit /\ [][GradNext]_vars

(* ======================= properties of the program ====================== *)
Columns == 0..(cols - 1)

\* the last column processing returned normally (no failed write, no panic)
Returned == last.kind \in {"rest", "step", "replace"}

\* C1: every droplet, created at startup or by replacement, has
\* 1 <= len <= max_len after any number of draw_next_frame calls.
C1_LenWithinMaxLen ==
    \A c \in Columns : 1 <= droplets[c].len /\ droplets[c].len <= droplets[c].max_len

\* a row step taken at len = max_len: the clamp of line 107 has acted
C1_Witness ==
    /\ last.kind = "step"
    /\ last.pre.len = last.pre.max_len
    /\ droplets[last.col].len = droplets[last.col].max_len

\* C2 as stated: whenever a column is processed while its droplet is exhausted
\* (row >= rows + len), that call replaces it, with row < rows / 4 and len = 1.
\* Calls that panic are left out here; they are the subject of C16.
C2_NextCallReplaces ==
    (Returned /\ last.pre.row >= rows + last.pre.len) =>
        /\ last.kind = "replace"
        /\ droplets[last.col].row < rows \div 4
        /\ droplets[last.col].len = 1

\* C2 amended: a droplet is replaced only when row >= rows + len; a call on an
\* exhausted droplet with frame + speed < 1.0 is a resting tick that leaves it
\* exhausted; the first call with frame + speed >= 1.0 takes the replacement
\* branch, which yields a droplet with row < rows / 4 and len = 1 when
\* rows / 4 > 0 and aborts the program when rows / 4 = 0.
C2_ReplacedOnNextNonRestingCall ==
    LET pre == last.pre
        now == droplets[last.col]
        exhausted == pre.row >= rows + pre.len
        due == pre.frame + pre.speed >= One
    IN /\ last.kind \in {"replace", "panic"} => exhausted /\ due
       /\ (last.kind # "none" /\ exhausted /\ due) =>
             last.kind = (IF rows \div 4 > 0 THEN "replace" ELSE "panic")
       /\ (last.kind # "none" /\ exhausted /\ ~due) =>
             /\ last.kind = "rest"
             /\ now = [pre EXCEPT !.frame = pre.frame + pre.speed]
             /\ now.row >= rows + now.len
       /\ last.kind = "replace" => now.row < rows \div 4 /\ now.len = 1

\* with rows = 5 an exhausted droplet has been replaced by one at row 0, len 1
C2_Witness ==
    /\ rows = 5
    /\ last.kind = "replace"
    /\ last.pre.row >= rows + last.pre.len
    /\ droplets[last.col].row = 0
    /\ droplets[last.col].len = 1

Seed == Droplet(0, 1, 3, One, One)

Scenario == cols = 1 /\ rows = 5 /\ last.kind = "step"

\* C3 as stated: cols = 1, rows = 5, droplet row=0 len=1 max_len=3 frame=1.0
\* speed=1.0; one advance gives row=1 len=2 frame=0.0, a second row=2 len=3,
\* a third row=3 len=3.
C3_ScenarioFrameZero ==
    /\ (Scenario /\ last.pre = Seed) => droplets[0] = Droplet(1, 2, 3, 0, One)
    /\ (Scenario /\ last.pre.row = 1 /\ last.pre.len = 2 /\ last.pre.max_len = 3
          /\ last.pre.speed = One) => droplets[0].row = 2 /\ droplets[0].len = 3
    /\ (Scenario /\ last.pre.row = 2 /\ last.pre.len = 3 /\ last.pre.max_len = 3
          /\ last.pre.speed = One) => droplets[0].row = 3 /\ droplets[0].len = 3

\* C3 amended: same scenario, but frame is 1.0 (not 0.0) after the first
\* advance, and stays 1.0: row=1 len=2 frame=1.0, then row=2 len=3, then
\* row=3 len=3.
C3_ScenarioFrameOne ==
    /\ (Scenario /\ last.pre = Seed) => droplets[0] = Droplet(1, 2, 3, One, One)
    /\ (Scenario /\ last.pre = Droplet(1, 2, 3, One, One)) =>
          droplets[0] = Droplet(2, 3, 3, One, One)
    /\ (Scenario /\ last.pre = Droplet(2, 3, 3, One, One)) =>
          droplets[0] = Droplet(3, 3, 3, One, One)

\* the second advance of the seeded droplet (len 2 < max_len arises only from
\* the seed) has been made
C3_Witness ==
    /\ Scenario
    /\ last.pre = Droplet(1, 2, 3, One, One)
    /\ droplets[0] = Droplet(2, 3, 3, One, One)

\* C4: frame never exceeds 1.0 after a call has processed the column, be it
\* a resting tick, a row step or a replacement.
C4_FrameAtMostOne ==
    \A c \in Columns :
        (last.kind \in {"fail", "panic"} /\ c = last.col) \/ droplets[c].frame <= One

\* a row step from frame = 1.0 at speed 1.0: frame passed through 2.0 and is
\* back at exactly 1.0
C4_Witness ==
    /\ last.kind = "step"
    /\ last.pre.frame = One
    /\ last.pre.speed = One
    /\ droplets[last.col].frame = One

\* C5: a droplet's row never decreases and grows by at most one per call,
\* except at the call that replaces the droplet.
C5_RowMonotone ==
    [][\A c \in Columns :
          \/ droplets'[c].row = droplets[c].row
          \/ droplets'[c].row = droplets[c].row + 1
          \/ /\ pc = "frame" /\ col = c
             /\ droplets[c].row >= rows + droplets[c].len
             /\ last'.kind = "replace" /\ last'.col = c]_vars

\* a replacement has moved the head back up
C5_Witness ==
    /\ last.kind = "replace"
    /\ droplets[last.col].row < last.pre.row

\* C6: once 'q' has cleared the flag the loop starts no further frame, and,
\* terminal writes succeeding, the program ends with the terminal restored
\* and a successful exit.  Stated on finished runs: a run that has ended
\* after 'q' without a failed write ended at line 159 with the terminal
\* restored.
C6_QuitEndsRestored ==
    (Exited /\ ~running /\ pc # "failed") => (pc = "done" /\ term = TermRestored)

\* C7: when a terminal write fails during a frame the loop is aborted at once
\* and the terminal is restored (alternate screen left, cursor shown, raw
\* mode disabled) before the process exits with failure.
C7_WriteFailureRestores ==
    (pc = "failed" /\ last.kind = "fail") => term = TermRestored

GradApplied == grad.color # <<>>

\* C8 as stated: each channel is the base channel times (len - d) / len,
\* truncated to an integer.
C8_ExactTruncation ==
    GradApplied =>
        \A i \in 1..3 :
            grad.color[i] = (BASE_COLOR[i] * (grad.len - grad.distance)) \div grad.len

\* C8 amended: each channel is the truncation of base * ((len - d) / len) as
\* computed in f64.  It equals the exact truncation whenever
\* base * (len - d) / len is not an integer, and is the exact value or one
\* less when it is (len = 10, d = 3 gives (118, 178, 118), not (119, 178,
\* 119)); it is the base color at d = 0, (0, 0, 0) at d = len, and
\* non-increasing in d.
C8_F64Truncation ==
    GradApplied =>
        /\ \A i \in 1..3 :
              LET exact == BASE_COLOR[i] * (grad.len - grad.distance)
                  c == grad.color[i]
              IN /\ c \in {exact \div grad.len, (exact \div grad.len) - 1}
                 /\ c >= 0
                 /\ exact % grad.len # 0 => c = exact \div grad.len
                 /\ grad.distance = 0 => c = BASE_COLOR[i]
                 /\ grad.distance = grad.len => c = 0
                 /\ \A d2 \in 0..grad.distance : GradientTable[grad.len][d2][i] >= c
        /\ (grad.len = 10 /\ grad.distance = 3) => grad.color = <<118, 178, 118>>

\* the gradient has been computed where f64 rounding shows
C8_Witness ==
    /\ grad.len = 10
    /\ grad.distance = 3
    /\ grad.color = <<118, 178, 118>>

\* the cells that received a glyph in the last column processing
PaintedCells == {<<last.writes[i].col, last.writes[i].row>> :
                    i \in {j \in 1..Len(last.writes) : last.writes[j].op = "paint"}}

\* the on-screen cells of column c at rows (r - d), d in [0, l]
TrailCells(c, r, l) == {<<c, r - d>> : d \in {e \in 0..l : r >= e /\ r - e < rows}}

\* the droplet of the last processed column is its previous value advanced
AdvancedFromPre ==
    LET pre == last.pre
        now == droplets[last.col]
    IN /\ now.frame = pre.frame + pre.speed - One
       /\ now.row = pre.row + 1
       /\ now.len = Min(pre.len + 1, pre.max_len)
       /\ now.max_len = pre.max_len
       /\ now.speed = pre.speed

\* C10 as stated: on a row step the droplet is advanced first and the trail is
\* painted with the advanced row and len.
C10_PaintsAdvancedTrail ==
    last.kind = "step" =>
        /\ AdvancedFromPre
        /\ PaintedCells = TrailCells(last.col, droplets[last.col].row, droplets[last.col].len)

\* C10 amended: on a row step only frame += speed happens first; the trail is
\* painted with the row and len the droplet had when the call began (exactly
\* the on-screen cells (row - d), d in [0, len], of its own column), and the
\* droplet is advanced after the painting (frame -= 1.0, row += 1,
\* len = min(len + 1, max_len)).
C10_PaintsThenAdvances ==
    last.kind = "step" =>
        /\ AdvancedFromPre
        /\ PaintedCells = TrailCells(last.col, last.pre.row, last.pre.len)
        /\ \A cell \in PaintedCells :
              cell[1] = last.col /\ 0 <= cell[2] /\ cell[2] < rows

\* a trail has been painted whose head is already below the screen
C10_Witness ==
    /\ last.kind = "step"
    /\ last.pre.row >= rows
    /\ PaintedCells # {}
    /\ droplets[last.col].row = last.pre.row + 1

\* the erase writes of the last column processing
EraseWrites == SelectSeq(last.writes, LAMBDA w : w.op = "erase")

\* C11: when a column's trail is painted, one blank cell is written at row
\* (row - len) of that column, after the trail paint, if and only if
\* row > len - 1 (row and len as used for the paint); nothing else is erased.
C11_EraseBehindTail ==
    last.kind = "step" =>
        IF last.pre.row > last.pre.len - 1
        THEN /\ EraseWrites = <<EraseOp(last.col, last.pre.row - last.pre.len)>>
             /\ last.writes[Len(last.writes)].op = "erase"
             /\ <<last.col, last.pre.row - last.pre.len>> \notin screen
        ELSE EraseWrites = <<>>

\* the boundary row = len: the first erase of a trail, at row 0
C11_Witness ==
    /\ last.kind = "step"
    /\ last.pre.row = last.pre.len
    /\ EraseWrites = <<EraseOp(last.col, 0)>>

\* the render thread has processed column `col` in this step
ColumnStep == pc = "frame" /\ col < cols /\ (col' # col \/ pc' # pc)

\* C12: on a call where frame + speed < 1.0 nothing is painted or erased in
\* the column and row, len, max_len and speed are unchanged; only frame
\* changes, by speed.
C12_RestingTick ==
    [][(ColumnStep /\ droplets[col].frame + droplets[col].speed < One) =>
          /\ screen' = screen
          /\ last'.kind = "rest" /\ last'.writes = <<>>
          /\ droplets' = [droplets EXCEPT ![col].frame =
                                droplets[col].frame + droplets[col].speed]]_vars

\* a resting tick has been taken while glyphs of the column are on screen
C12_Witness ==
    /\ last.kind = "rest"
    /\ \E cell \in screen : cell[1] = last.col
    /\ droplets[last.col].frame = last.pre.frame + last.pre.speed
    /\ droplets[last.col].row = last.pre.row

\* C13: the call that replaces an exhausted droplet paints and erases nothing
\* in that column, and the replacement has frame = 1.0, so the next call on
\* the column is never a resting tick: whatever the speed it paints the new
\* droplet and makes a row step (unless a write fails).
C13_ReplacementDrawnNextCall ==
    [][ColumnStep =>
          /\ last'.kind = "replace" =>
                /\ screen' = screen
                /\ last'.writes = <<>>
                /\ droplets'[col].frame = One
          /\ droplets[col].len = 1 =>
                /\ droplets[col].frame = One
                /\ last'.kind \in {"step", "fail"}
                /\ last'.kind = "step" =>
                      /\ droplets'[col].row = droplets[col].row + 1
                      /\ <<col, droplets[col].row>> \in screen']_vars

\* a freshly spawned droplet slower than 1.0 has been painted and stepped
C13_Witness ==
    /\ last.kind = "step"
    /\ last.pre.len = 1
    /\ last.pre.speed < One
    /\ <<last.col, last.pre.row>> \in screen

\* max_len and speed are within the configured ranges
InRanges(d) ==
    /\ DROPLET_MIN_LENGTH <= d.max_len /\ d.max_len <= DROPLET_MAX_LENGTH
    /\ 0 < d.speed /\ d.speed <= One
    /\ d.speed * MinSpeedRecip >= One

\* C14: max_len and speed never change except at the call that replaces the
\* droplet; every droplet has max_len in [2, 20] and speed in [0.2, 1.0]; the
\* replacement sets row, len, max_len, frame and speed in the same step.
C14_FixedUntilReplaced ==
    /\ [](\A c \in Columns : InRanges(droplets[c]))
    /\ [][\A c \in Columns :
            \/ /\ droplets'[c].max_len = droplets[c].max_len
               /\ droplets'[c].speed = droplets[c].speed
            \/ /\ ColumnStep /\ col = c /\ last'.kind = "replace"
               /\ droplets'[c].row < rows \div 4
               /\ droplets'[c].len = 1
               /\ droplets'[c].frame = One
               /\ InRanges(droplets'[c])]_vars

\* a replacement has changed both max_len and speed
C14_Witness ==
    /\ last.kind = "replace"
    /\ droplets[last.col].max_len # last.pre.max_len
    /\ droplets[last.col].speed # last.pre.speed

\* C15: the flag is changed only by the watcher thread and only on 'q'; any
\* other event or a failed read leaves it unchanged and the render loop keeps
\* starting frames; the flag only goes from running to stopped.
C15_OnlyQuitKeyStops ==
    [][/\ running' # running =>
            /\ running /\ ~running'
            /\ ipc = "read" /\ ipc' = "exit"
            /\ OnEvent("q")
            /\ UNCHANGED <<droplets, pc, col, screen, term, last>>
       /\ \A ev \in InputEvents \ {"q"} : OnEvent(ev) => running' = running
       /\ (pc = "loop" /\ running /\ pc' # pc) => pc' = "frame"
       /\ ~running => ~running']_vars

\* 'q' has cleared the flag while a frame was being drawn
C15_Witness ==
    /\ ~running
    /\ ipc = "exit"
    /\ pc = "frame"
    /\ last.kind = "step"

\* C16: replacing an exhausted droplet succeeds for every terminal height
\* rows >= 1: the range [0, rows / 4) is never empty and the replacement
\* never aborts the program.
C16_ReplacementNeverAborts ==
    \A c \in Columns :
        (droplets[c].row >= rows + droplets[c].len) =>
            /\ rows \div 4 > 0
            /\ ~(last.kind = "panic" /\ last.col = c)

\* the rows of column c that hold a glyph
GlyphRows(c) == {cell[2] : cell \in {x \in screen : x[1] = c}}

\* C17: from a blank screen, after every call every non-blank cell of a
\* column lies in rows [row - len, row - 1] of the column's droplet, on
\* screen; when a droplet is replaced its column is entirely blank.
C17_GlyphsWithinTrail ==
    last.kind # "fail" =>
        /\ \A cell \in screen :
              /\ cell[1] \in Columns
              /\ 0 <= cell[2] /\ cell[2] < rows
              /\ droplets[cell[1]].row - droplets[cell[1]].len <= cell[2]
              /\ cell[2] <= droplets[cell[1]].row - 1
        /\ last.kind = "replace" => GlyphRows(last.col) = {}

\* a full-length trail is entirely on screen right after its tail was erased
C17_Witness ==
    /\ last.kind = "step"
    /\ EraseWrites # <<>>
    /\ droplets[last.col].len = droplets[last.col].max_len
    /\ GlyphRows(last.col) =
          (droplets[last.col].row - droplets[last.col].len)..(droplets[last.col].row - 1)
          \ {last.pre.row - last.pre.len}
    /\ Cardinality(GlyphRows(last.col)) = droplets[last.col].len

\* C18: the u16 subtractions of draw_next_frame never underflow and every
\* cursor move is on screen: an erase targets 0 <= row - len < rows, len - 1
\* is never computed with len = 0, every painted row is in [0, rows).
C18_NoUnderflowOnScreen ==
    /\ \A c \in Columns : droplets[c].len >= 1
    /\ last.kind \in {"step", "fail"} =>
          /\ last.pre.len >= 1
          /\ \A i \in 1..Len(last.writes) :
                /\ last.writes[i].col = last.col
                /\ 0 <= last.writes[i].row
                /\ last.writes[i].row < rows
          /\ EraseWrites # <<>> => last.pre.row >= last.pre.len

\* the last on-screen position of the tail: the erase goes to the bottom row
C18_Witness ==
    /\ last.kind = "step"
    /\ EraseWrites = <<EraseOp(last.col, rows - 1)>>
    /\ last.pre.row = rows + last.pre.len - 1

\* C19: while the render loop keeps running (no quit, no failed write) every
\* droplet of every column is exhausted and replaced again and again.
C19_ReplacedInfinitelyOften ==
    \A c \in 0..(MaxCols - 1) :
        []<>(\/ c \notin Columns
             \/ ~running
             \/ pc = "failed"
             \/ last.kind = "replace" /\ last.col = c)

====
